---- MODULE Spec2Model ----
(***************************************************************************)
(* Three parts of cli/commands.                                            *)
(* 1. The BoardServer frame broadcast hub (board server with the nil-      *)
(*    channel sentinel): the dispatch loop of startBoardServer, the        *)
(*    per-connection handler serveFrames with its reader goroutine, the    *)
(*    producer calls sendState / gameOver, the listener goroutine, stop(). *)
(* 2. The older boardServer with the gameOver flag and its polling loop.   *)
(* 3. The read loop of the move command and the two conversions of the     *)
(*    snake list, convertRulesAPISnakes and frameFromState.                *)
(* Every goroutine is a process with a program counter; an unbuffered      *)
(* channel operation is a rendezvous of the two goroutines that take part. *)
(***************************************************************************)
EXTENDS Integers, Sequences, FiniteSets, TLC

\* ---------------------------------------------------------------- bounds
\* number of websocket connections that may be opened
MaxSubs == 2
\* the connections, numbered in the order in which they are opened
Subs == 1..MaxSubs
\* number of sendState calls the producer makes
MaxFrames == 3
\* capacity of a subscriber's frameChannel (make(chan Frame, 100)), scaled
QueueCap == 1
\* bound on (connections opened) * (sendState calls made)
MaxLoad == 4
\* turn numbers an arbitrary producer may put in a state: 0..MaxTurn
MaxTurn == 1
\* number of gameOver() calls the producer may make
MaxGameOver == 2
\* number of stop() calls
MaxStopCalls == 2

\* no value: of a string, of a req (the connections are 1..MaxSubs), of a
\* *Frame (nil)
None == "none"
NoReq == 0
NilFrame == [Turn |-> -1]

VARIABLES
  boardFrameBuffer,   \* []Frame of the dispatch goroutine
  reqMap,             \* map[wsReq]int: subscriber -> frameCount (cursor)
  frameChannelNil,    \* the dispatch loop has set b.frameChannel = nil
  frameChannelClosed, \* close(b.frameChannel) has been executed
  hubPc,              \* position of the dispatch goroutine
  passTodo,           \* entries of reqMap the current range has not visited
  cur,                \* req of the current range iteration
  frameCount,         \* frameCount of the current range iteration
  idx,                \* i of the inner range over boardFrameBuffer[frameCount:]
  frameQueue,         \* contents of each req.frameChannel
  queueClosed,        \* close(req.frameChannel) has been executed
  subPc,              \* position of each events handler / serveFrames
  readerPc,           \* position of each read-and-discard goroutine
  lastFrame,          \* lastFrame of serveFrames
  written,            \* envelopes written to the websocket, in order
  prodPc,             \* position of the game loop, the goroutine that calls
                      \* sendState, gameOver and stop
  prodFrame,          \* frame of the pending sendState
  prodView,           \* value of b.frameChannel the producer's call has read
  sentCount,          \* sendState calls made so far
  gameOverCalls,      \* gameOver calls made so far
  stopCalls,          \* stop() calls made so far
  stopReturns,        \* stop() calls that have returned
  stopGot,            \* senders of the signals stop() has received
  shutdownCalled,     \* b.Server.Shutdown has been called
  lisPc,              \* position of the listener goroutine
  placed,             \* history: buffer indexes put on each frameChannel
  registered,         \* history: the req of the connection has been
                      \* registered with the dispatch loop
  gameOver,           \* gameOver of the dispatch goroutine of the boardServer
                      \* with the gameOver flag
  allReqDone,         \* allReqDone of that goroutine
  polls,              \* passes of that goroutine started after time.Sleep
  movePc,             \* position of move(), the read loop of the move command
  linesRead,          \* values move() has decoded from stdin so far
  state,              \* state (MoveState) of the current loop iteration
  boardState,         \* boardState of the current loop iteration
  moves,              \* moves ([]rules.SnakeMove) of the current iteration
  calls,              \* history: calls made for the current line, with err
  stdout,             \* requests written to os.Stdout, in order
  errLog,             \* messages given to errLog, in order
  websiteSnakes       \* websiteSnakes of frameFromState, the Snakes of its Frame

hubVars  == <<boardFrameBuffer, reqMap, frameChannelNil, hubPc, passTodo, cur,
              frameCount, idx>>
subVars  == <<frameQueue, queueClosed, subPc, readerPc, lastFrame, written>>
prodVars == <<prodPc, prodFrame, prodView, sentCount, gameOverCalls,
              frameChannelClosed>>
stopVars == <<stopCalls, stopReturns, stopGot, shutdownCalled>>
histVars == <<placed, registered>>
flagVars == <<gameOver, allReqDone, polls>>
serverVars == <<hubVars, subVars, prodVars, stopVars, lisPc, histVars, flagVars>>
moveVars == <<movePc, linesRead, state, boardState, moves, calls, stdout,
              errLog, websiteSnakes>>
vars == <<serverVars, moveVars>>

\* frameFromState: Turn is state.Turn; the other fields of the frame are never
\* read by the hub.
frameFromState(turn) == [Turn |-> turn]

\* NewBoardServer, startBoardServer: empty buffer and map, both goroutines
\* started, no connection yet.
ServerInit ==
  /\ boardFrameBuffer = <<>>
  /\ reqMap = [s \in {} |-> 0]
  /\ frameChannelNil = FALSE
  /\ frameChannelClosed = FALSE
  /\ hubPc = "select"
  /\ passTodo = {}
  /\ cur = NoReq
  /\ frameCount = 0
  /\ idx = 0
  /\ frameQueue = [s \in Subs |-> <<>>]
  /\ queueClosed = [s \in Subs |-> FALSE]
  /\ subPc = [s \in Subs |-> "idle"]
  /\ readerPc = [s \in Subs |-> "idle"]
  /\ lastFrame = [s \in Subs |-> NilFrame]
  /\ written = [s \in Subs |-> <<>>]
  /\ prodPc = "idle"
  /\ prodFrame = NilFrame
  /\ prodView = None
  /\ sentCount = 0
  /\ gameOverCalls = 0
  /\ stopCalls = 0
  /\ stopReturns = 0
  /\ stopGot = <<>>
  /\ shutdownCalled = FALSE
  /\ lisPc = "listening"
  /\ placed = [s \in Subs |-> <<>>]
  /\ registered = [s \in Subs |-> FALSE]
  /\ gameOver = FALSE
  /\ allReqDone = TRUE
  /\ polls = 0

\* no MoveState decoded yet, no board state built yet
NoState == [Request |-> [Turn |-> -1, Snakes |-> <<>>, You |-> 0],
            Moves |-> <<>>]
NoBoard == [Turn |-> -1, Snakes |-> <<>>]

\* move() before its first decoder.Decode: nothing read, nothing written.
MoveInit ==
  /\ movePc = "decode"
  /\ linesRead = 0
  /\ state = NoState
  /\ boardState = NoBoard
  /\ moves = <<>>
  /\ calls = <<>>
  /\ stdout = <<>>
  /\ errLog = <<>>
  /\ websiteSnakes = <<>>

Init == ServerInit /\ MoveInit

\* A panic in any goroutine ends the process.
Crashed == hubPc = "panic" \/ prodPc = "panic"

\* Values a read of the field b.frameChannel by the producer may yield: the
\* dispatch goroutine writes nil to it without synchronisation, so after that
\* write the read yields the channel or nil.
FieldViews == IF frameChannelNil THEN {"chan", "nil"} ELSE {"chan"}

\* Connections opened so far, and the bound on the runs explored.
Connections == Cardinality({s \in Subs : subPc[s] # "idle"})
WithinLoad(conns, sends) == conns * sends <= MaxLoad

\* ------------------------------------------------------------- producer
\* sendState: build the frame, read b.frameChannel, start the send.
SendStateCall(t) ==
  /\ ~Crashed
  /\ prodPc = "idle"
  /\ sentCount < MaxFrames
  /\ WithinLoad(Connections, sentCount + 1)
  /\ \E v \in FieldViews : prodView' = v
  /\ prodFrame' = frameFromState(t)
  /\ prodPc' = "send"
  /\ sentCount' = sentCount + 1
  /\ UNCHANGED <<gameOverCalls, frameChannelClosed>>
  /\ UNCHANGED <<hubVars, subVars, stopVars, lisPc, histVars>>
  /\ UNCHANGED <<flagVars, moveVars>>

\* sendState: a send on a closed channel panics.
SendStatePanic ==
  /\ ~Crashed
  /\ prodPc = "send"
  /\ prodView = "chan"
  /\ frameChannelClosed
  /\ prodPc' = "panic"
  /\ UNCHANGED <<prodFrame, prodView, sentCount, gameOverCalls, frameChannelClosed>>
  /\ UNCHANGED <<hubVars, subVars, stopVars, lisPc, histVars>>
  /\ UNCHANGED <<flagVars, moveVars>>

\* gameOver: close(b.frameChannel); closing nil or a closed channel panics.
GameOverCall ==
  /\ ~Crashed
  /\ prodPc = "idle"
  /\ gameOverCalls < MaxGameOver
  /\ gameOverCalls' = gameOverCalls + 1
  /\ \E v \in FieldViews :
       IF v = "nil" \/ frameChannelClosed
         THEN /\ prodPc' = "panic"
              /\ UNCHANGED frameChannelClosed
         ELSE /\ frameChannelClosed' = TRUE
              /\ UNCHANGED prodPc
  /\ UNCHANGED <<prodFrame, prodView, sentCount>>
  /\ UNCHANGED <<hubVars, subVars, stopVars, lisPc, histVars>>
  /\ UNCHANGED <<flagVars, moveVars>>

\* ------------------------------------------------------- dispatch loop
\* The dispatch goroutine has chosen a case of its select and starts
\* for req, frameCount := range reqMap over the entries of m.
StartPass(m) ==
  /\ passTodo' = DOMAIN m
  /\ hubPc' = IF DOMAIN m = {} THEN "select" ELSE "range"

\* The dispatch goroutine has finished the iteration for one req: next entry,
\* or back to the select of serve_loop after the last one.
NextReq(todo) ==
  /\ hubPc' = IF todo = {} THEN "select" ELSE "range"
  /\ cur' = NoReq
  /\ frameCount' = 0
  /\ idx' = 0

\* After the inner range:
\* if b.frameChannel == nil && reqMap[req] >= len(boardFrameBuffer)
\*     { close(req.frameChannel) }      (closing a closed channel panics)
\* s is the req, m the map and todo the entries still to visit.
CloseCheck(s, m, todo) ==
  IF frameChannelNil /\ m[s] >= Len(boardFrameBuffer)
    THEN IF queueClosed[s]
           THEN /\ hubPc' = "panic"
                /\ cur' = s
                /\ UNCHANGED <<queueClosed, frameCount, idx>>
           ELSE /\ queueClosed' = [queueClosed EXCEPT ![s] = TRUE]
                /\ NextReq(todo)
    ELSE /\ UNCHANGED queueClosed
         /\ NextReq(todo)

\* case board, open := <-b.frameChannel with open: rendezvous with the send of
\* sendState; the frame is appended to the buffer.
HubRecvFrame ==
  /\ ~Crashed
  /\ hubPc = "select"
  /\ ~frameChannelNil
  /\ ~frameChannelClosed
  /\ prodPc = "send"
  /\ prodView = "chan"
  /\ boardFrameBuffer' = Append(boardFrameBuffer, prodFrame)
  /\ prodPc' = "idle"
  /\ prodFrame' = NilFrame
  /\ prodView' = None
  /\ StartPass(reqMap)
  /\ UNCHANGED <<reqMap, frameChannelNil, cur, frameCount, idx>>
  /\ UNCHANGED <<sentCount, gameOverCalls, frameChannelClosed>>
  /\ UNCHANGED <<subVars, stopVars, lisPc, histVars>>
  /\ UNCHANGED <<flagVars, moveVars>>

\* case board, open := <-b.frameChannel with !open: b.frameChannel = nil.
HubRecvClosed ==
  /\ ~Crashed
  /\ hubPc = "select"
  /\ ~frameChannelNil
  /\ frameChannelClosed
  /\ frameChannelNil' = TRUE
  /\ StartPass(reqMap)
  /\ UNCHANGED <<boardFrameBuffer, reqMap, cur, frameCount, idx>>
  /\ UNCHANGED <<subVars, prodVars, stopVars, lisPc, histVars>>
  /\ UNCHANGED <<flagVars, moveVars>>

\* case websocketChannels := <-registerWsReqChannel: rendezvous with the
\* events handler of s; reqMap[websocketChannels] = 0. The handler goes on
\* into serveFrames up to its first channel operation: upgrader.Upgrade either
\* fails, and serveFrames returns at once without a send on req.doneChannel,
\* or succeeds, and the reader goroutine is started and conn_loop entered.
HubRegister(s) ==
  /\ ~Crashed
  /\ hubPc = "select"
  /\ subPc[s] = "register"
  /\ reqMap' = [x \in DOMAIN reqMap \cup {s} |-> IF x = s THEN 0 ELSE reqMap[x]]
  /\ \/ /\ subPc' = [subPc EXCEPT ![s] = "conn_loop"]
        /\ readerPc' = [readerPc EXCEPT ![s] = "reading"]
     \/ /\ subPc' = [subPc EXCEPT ![s] = "upgrade_failed"]
        /\ UNCHANGED readerPc
  /\ registered' = [registered EXCEPT ![s] = TRUE]
  /\ StartPass(reqMap')
  /\ UNCHANGED <<boardFrameBuffer, frameChannelNil, cur, frameCount, idx>>
  /\ UNCHANGED <<frameQueue, queueClosed, lastFrame, written>>
  /\ UNCHANGED <<prodVars, stopVars, lisPc, placed>>
  /\ UNCHANGED <<flagVars, moveVars>>

\* case <-b.doneChannel: break serve_loop, receiving the value stop() sends.
HubRecvStopRequest ==
  /\ ~Crashed
  /\ hubPc = "select"
  /\ prodPc = "request"
  /\ prodPc' = "shutdown"
  /\ hubPc' = "complete"
  /\ UNCHANGED <<boardFrameBuffer, reqMap, frameChannelNil, passTodo, cur,
                 frameCount, idx>>
  /\ UNCHANGED <<prodFrame, prodView, sentCount, gameOverCalls, frameChannelClosed>>
  /\ UNCHANGED <<subVars, stopVars, lisPc, histVars>>
  /\ UNCHANGED <<flagVars, moveVars>>

\* case <-b.doneChannel: break serve_loop, receiving the value the listener
\* goroutine sends on the same channel.
HubRecvListenerSignal ==
  /\ ~Crashed
  /\ hubPc = "select"
  /\ lisPc = "complete"
  /\ lisPc' = "done"
  /\ hubPc' = "complete"
  /\ UNCHANGED <<boardFrameBuffer, reqMap, frameChannelNil, passTodo, cur,
                 frameCount, idx>>
  /\ UNCHANGED <<subVars, prodVars, stopVars, histVars>>
  /\ UNCHANGED <<flagVars, moveVars>>

\* A removal that clears the whole map.
DeleteReq_All(m, s) == [x \in {} |-> 0]

\* delete(reqMap, req): the map without the entry of s.
DeleteReq(m, s) == [x \in DOMAIN m \ {s} |-> m[x]]

\* for req, frameCount := range reqMap: next entry. The non-blocking receive
\* on req.doneChannel succeeds exactly when serveFrames of s is blocked in its
\* send; then the entry is deleted. Otherwise the inner range over
\* boardFrameBuffer[frameCount:] starts; when that slice is empty the close
\* check follows at once.
HubVisit(s) ==
  /\ ~Crashed
  /\ hubPc = "range"
  /\ s \in passTodo
  /\ passTodo' = passTodo \ {s}
  /\ IF subPc[s] = "done_send"
       THEN /\ reqMap' = DeleteReq(reqMap, s)
            /\ subPc' = [subPc EXCEPT ![s] = "returned"]
            /\ NextReq(passTodo \ {s})
            /\ UNCHANGED queueClosed
       ELSE /\ UNCHANGED <<reqMap, subPc>>
            /\ IF reqMap[s] < Len(boardFrameBuffer)
                 THEN /\ cur' = s
                      /\ frameCount' = reqMap[s]
                      /\ idx' = 0
                      /\ hubPc' = "send"
                      /\ UNCHANGED queueClosed
                 ELSE CloseCheck(s, reqMap, passTodo \ {s})
  /\ UNCHANGED <<boardFrameBuffer, frameChannelNil>>
  /\ UNCHANGED <<frameQueue, readerPc, lastFrame, written>>
  /\ UNCHANGED <<prodVars, stopVars, lisPc, histVars>>
  /\ UNCHANGED <<flagVars, moveVars>>

\* reqMap[req] set after every attempt, whether or not the send was taken.
CursorAfterSend_Always(ok, cursor, i) == i + 1

\* reqMap[req] after one attempt to send the frame of buffer index i:
\*   case req.frameChannel <- frame: reqMap[req] = frameCount + i + 1
\*   default:
CursorAfterSend(ok, cursor, i) == IF ok THEN i + 1 ELSE cursor

\* One iteration of for i, frame := range boardFrameBuffer[frameCount:] whose
\* send succeeds (ok) or takes the default case; a send on a closed channel
\* panics. After the last iteration the close check follows.
SendAttempt(ok) ==
  LET frame == boardFrameBuffer[frameCount + idx + 1]
      last  == idx + 1 >= Len(boardFrameBuffer) - frameCount
      m     == [reqMap EXCEPT
                  ![cur] = CursorAfterSend(ok, reqMap[cur], frameCount + idx)]
  IN
    /\ IF queueClosed[cur]
         THEN /\ hubPc' = "panic"
              /\ UNCHANGED <<frameQueue, reqMap, placed, idx, cur, frameCount,
                             queueClosed>>
         ELSE /\ reqMap' = m
              /\ IF ok
                   THEN /\ frameQueue' = [frameQueue EXCEPT ![cur] = Append(@, frame)]
                        /\ placed' = [placed EXCEPT ![cur] = Append(@, frameCount + idx)]
                   ELSE UNCHANGED <<frameQueue, placed>>
              /\ IF last
                   THEN CloseCheck(cur, m, passTodo)
                   ELSE /\ idx' = idx + 1
                        /\ UNCHANGED <<hubPc, cur, frameCount, queueClosed>>
    /\ UNCHANGED <<boardFrameBuffer, frameChannelNil, passTodo>>
    /\ UNCHANGED <<subPc, readerPc, lastFrame, written>>
    /\ UNCHANGED <<prodVars, stopVars, lisPc, registered>>

\* The same iteration with a plain, blocking send req.frameChannel <- frame.
HubSend_Blocking ==
  /\ ~Crashed
  /\ hubPc = "send"
  /\ Len(frameQueue[cur]) < QueueCap
  /\ SendAttempt(TRUE)
  /\ UNCHANGED <<flagVars, moveVars>>

\* select { case req.frameChannel <- frame: ...  default: }: the send is taken
\* when the channel has room, the default case otherwise.
HubSend ==
  /\ ~Crashed
  /\ hubPc = "send"
  /\ SendAttempt(Len(frameQueue[cur]) < QueueCap)
  /\ UNCHANGED <<flagVars, moveVars>>

\* ----------------------------------------------- events handler, serveFrames
\* A GET on the events path reaches the handler while the server listens: the
\* handler makes the wsReq and blocks in registerWsReqChannel <- socketReq.
SubConnect(s) ==
  /\ ~Crashed
  /\ subPc[s] = "idle"
  /\ lisPc = "listening"
  /\ \A r \in Subs : r < s => subPc[r] # "idle"
  /\ WithinLoad(Connections + 1, sentCount)
  /\ subPc' = [subPc EXCEPT ![s] = "register"]
  /\ UNCHANGED <<frameQueue, queueClosed, readerPc, lastFrame, written>>
  /\ UNCHANGED <<hubVars, prodVars, stopVars, lisPc, histVars>>
  /\ UNCHANGED <<flagVars, moveVars>>

\* conn_loop, case frame, game_running := <-req.frameChannel with a frame:
\* lastFrame = &frame, write the "frame" envelope; a write error breaks the
\* loop, and serveFrames blocks in req.doneChannel <- struct{}{}.
SubRecvFrame(s) ==
  /\ ~Crashed
  /\ subPc[s] = "conn_loop"
  /\ frameQueue[s] # <<>>
  /\ LET frame == Head(frameQueue[s]) IN
       /\ frameQueue' = [frameQueue EXCEPT ![s] = Tail(@)]
       /\ lastFrame' = [lastFrame EXCEPT ![s] = frame]
       /\ \/ /\ written' = [written EXCEPT
                              ![s] = Append(@, [Data |-> frame, Type |-> "frame"])]
             /\ UNCHANGED subPc
          \/ /\ subPc' = [subPc EXCEPT ![s] = "done_send"]
             /\ UNCHANGED written
  /\ UNCHANGED <<queueClosed, readerPc>>
  /\ UNCHANGED <<hubVars, prodVars, stopVars, lisPc, histVars>>
  /\ UNCHANGED <<flagVars, moveVars>>

\* conn_loop, the same case on the closed and drained channel: write the
\* "game_end" envelope with lastFrame (a write error breaks the loop), then the
\* close message, break.
SubRecvClosed(s) ==
  /\ ~Crashed
  /\ subPc[s] = "conn_loop"
  /\ frameQueue[s] = <<>>
  /\ queueClosed[s]
  /\ subPc' = [subPc EXCEPT ![s] = "done_send"]
  /\ \/ written' = [written EXCEPT
                      ![s] = Append(@, [Data |-> lastFrame[s], Type |-> "game_end"])]
     \/ UNCHANGED written
  /\ UNCHANGED <<frameQueue, queueClosed, readerPc, lastFrame>>
  /\ UNCHANGED <<hubVars, prodVars, stopVars, lisPc, histVars>>
  /\ UNCHANGED <<flagVars, moveVars>>

\* Reader goroutine and conn_loop, case <-closedChannel: the peer goes away
\* while serveFrames is in conn_loop; ws.NextReader returns an error, the
\* reader goroutine sends on closedChannel and conn_loop receives it and
\* breaks.
SubRecvClosedChannel(s) ==
  /\ ~Crashed
  /\ subPc[s] = "conn_loop"
  /\ readerPc[s] = "reading"
  /\ subPc' = [subPc EXCEPT ![s] = "done_send"]
  /\ readerPc' = [readerPc EXCEPT ![s] = "exited"]
  /\ UNCHANGED <<frameQueue, queueClosed, lastFrame, written>>
  /\ UNCHANGED <<hubVars, prodVars, stopVars, lisPc, histVars>>
  /\ UNCHANGED <<flagVars, moveVars>>

\* Reader goroutine after serveFrames has left conn_loop another way:
\* ws.NextReader returns an error (the peer has gone, or the deferred
\* ws.Close() has run) and the goroutine blocks in closedChannel <- , which
\* nothing receives any more.
ReaderDisconnect(s) ==
  /\ ~Crashed
  /\ readerPc[s] = "reading"
  /\ subPc[s] # "conn_loop"
  /\ readerPc' = [readerPc EXCEPT ![s] = "closed_send"]
  /\ UNCHANGED <<frameQueue, queueClosed, subPc, lastFrame, written>>
  /\ UNCHANGED <<hubVars, prodVars, stopVars, lisPc, histVars>>
  /\ UNCHANGED <<flagVars, moveVars>>

\* ------------------------------------------------- listener goroutine, stop
\* b.ListenAndServe returns: after Shutdown, or with an error of its own
\* (the address cannot be bound); the goroutine blocks in b.doneChannel <- .
ListenerReturn ==
  /\ ~Crashed
  /\ lisPc = "listening"
  /\ lisPc' = "complete"
  /\ UNCHANGED <<hubVars, subVars, prodVars, stopVars, histVars>>
  /\ UNCHANGED <<flagVars, moveVars>>

\* stop() is called: it blocks in b.doneChannel <- struct{}{}.
StopCall ==
  /\ ~Crashed
  /\ prodPc = "idle"
  /\ stopCalls < MaxStopCalls
  /\ stopCalls' = stopCalls + 1
  /\ prodPc' = "request"
  /\ UNCHANGED <<stopReturns, stopGot, shutdownCalled>>
  /\ UNCHANGED <<prodFrame, prodView, sentCount, gameOverCalls, frameChannelClosed>>
  /\ UNCHANGED <<hubVars, subVars, lisPc, histVars>>
  /\ UNCHANGED <<flagVars, moveVars>>

\* stop(): b.Server.Shutdown(context.Background()).
StopShutdown ==
  /\ ~Crashed
  /\ prodPc = "shutdown"
  /\ shutdownCalled' = TRUE
  /\ prodPc' = "recv1"
  /\ UNCHANGED <<stopCalls, stopReturns, stopGot>>
  /\ UNCHANGED <<prodFrame, prodView, sentCount, gameOverCalls, frameChannelClosed>>
  /\ UNCHANGED <<hubVars, subVars, lisPc, histVars>>
  /\ UNCHANGED <<flagVars, moveVars>>

\* stop() with a single <-b.doneChannel.
StopRecv_Once(sender) ==
  /\ prodPc \in {"recv1", "recv2"}
  /\ stopGot' = Append(stopGot, sender)
  /\ prodPc' = "idle"
  /\ stopReturns' = stopReturns + 1
  /\ UNCHANGED <<stopCalls, shutdownCalled>>
  /\ UNCHANGED <<prodFrame, prodView, sentCount, gameOverCalls, frameChannelClosed>>

\* stop(): the two statements <-b.doneChannel; stop() returns after the
\* second. A receive takes the value of whichever goroutine is blocked in a
\* send on b.doneChannel.
StopRecv(sender) ==
  /\ prodPc \in {"recv1", "recv2"}
  /\ stopGot' = Append(stopGot, sender)
  /\ IF prodPc = "recv1"
       THEN /\ prodPc' = "recv2"
            /\ UNCHANGED stopReturns
       ELSE /\ prodPc' = "idle"
            /\ stopReturns' = stopReturns + 1
  /\ UNCHANGED <<stopCalls, shutdownCalled>>
  /\ UNCHANGED <<prodFrame, prodView, sentCount, gameOverCalls, frameChannelClosed>>

\* stop() receives the value the dispatch goroutine sends after serve_loop.
StopRecvHub ==
  /\ ~Crashed
  /\ hubPc = "complete"
  /\ hubPc' = "done"
  /\ StopRecv("hub")
  /\ UNCHANGED <<boardFrameBuffer, reqMap, frameChannelNil, passTodo, cur,
                 frameCount, idx>>
  /\ UNCHANGED <<subVars, lisPc, histVars>>
  /\ UNCHANGED <<flagVars, moveVars>>

\* stop() receives the value the listener goroutine sends.
StopRecvListener ==
  /\ ~Crashed
  /\ lisPc = "complete"
  /\ lisPc' = "done"
  /\ StopRecv("listener")
  /\ UNCHANGED <<hubVars, subVars, histVars>>
  /\ UNCHANGED <<flagVars, moveVars>>

\* ------------------------------------------------------------ specification
Next ==
  \/ SendStateCall(sentCount)
  \/ SendStatePanic
  \/ GameOverCall
  \/ HubRecvFrame
  \/ HubRecvClosed
  \/ \E s \in Subs : HubRegister(s)
  \/ HubRecvStopRequest
  \/ HubRecvListenerSignal
  \/ \E s \in Subs : HubVisit(s)
  \/ HubSend
  \/ \E s \in Subs : SubConnect(s)
  \/ \E s \in Subs : SubRecvFrame(s)
  \/ \E s \in Subs : SubRecvClosed(s)
  \/ \E s \in Subs : ReaderDisconnect(s)
  \/ \E s \in Subs : SubRecvClosedChannel(s)
  \/ ListenerReturn
  \/ StopCall
  \/ StopShutdown
  \/ StopRecvHub
  \/ StopRecvListener

Spec == Init /\ [][Next]_vars

\* The same hub driven by a producer that hands sendState states with any turn
\* number.
AnyTurnNext ==
  \/ Next
  \/ \E t \in 0..MaxTurn : SendStateCall(t)

AnyTurnSpec == Init /\ [][AnyTurnNext]_vars

\* The hub while the game is running: no gameOver(), no stop(), the listener
\* keeps listening. The scheduler runs the dispatch goroutine whenever it can
\* take a step, and a select that stays ready is eventually taken.
RunningNext ==
  \/ SendStateCall(sentCount)
  \/ HubRecvFrame
  \/ \E s \in Subs : HubRegister(s)
  \/ \E s \in Subs : HubVisit(s)
  \/ HubSend
  \/ \E s \in Subs : SubConnect(s)
  \/ \E s \in Subs : SubRecvFrame(s)
  \/ \E s \in Subs : SubRecvClosedChannel(s)
  \/ \E s \in Subs : ReaderDisconnect(s)

HubStep == HubRecvFrame \/ (\E s \in Subs : HubVisit(s)) \/ HubSend

RunningSpec == Init /\ [][RunningNext]_vars /\ WF_vars(HubStep)

\* ------------------------------------------------------------------------
\* The boardServer with the gameOver flag: startBoardServer(rulesetName), its
\* socket handler with serveBoardFrames, and stop(). It is a second program
\* over the same kind of state: the variables of the dispatch goroutine, of
\* the handlers and of the caller are used for it as well, together with
\* gameOver, allReqDone and polls. The game loop sends its frames on
\* b.frameChannel and calls stop() at the end.

\* number of passes the dispatch goroutine starts after time.Sleep
MaxPolls == 2
\* bound on (connections opened) * (frames sent) for this server
MaxLegacyLoad == 2
LegacyWithinLoad(conns, sends) == conns * sends <= MaxLegacyLoad

\* if gameOver && allReqDone { break } else if gameOver { time.Sleep(...) },
\* then the next iteration: position of the goroutine after a pass.
LegacyAfterPass(over, allDone) ==
  IF over /\ allDone THEN "complete" ELSE IF over THEN "poll" ELSE "select"

\* allReqDone := true; for wc, frameCount := range reqMap over the entries of
\* m, with gameOver as it is after the select.
LegacyStartPass(m, over) ==
  /\ passTodo' = DOMAIN m
  /\ allReqDone' = TRUE
  /\ hubPc' = IF DOMAIN m = {} THEN LegacyAfterPass(over, TRUE) ELSE "range"

\* The iteration for one wc is finished: next entry, or the end of the pass.
LegacyNextReq(todo, allDone) ==
  /\ hubPc' = IF todo = {} THEN LegacyAfterPass(gameOver, allDone) ELSE "range"
  /\ allReqDone' = allDone
  /\ cur' = NoReq
  /\ frameCount' = 0
  /\ idx' = 0

\* if gameOver && reqMap[wc] >= int32(len(boardFrameBuffer))
\*     { close(wc.frameChannel) }      (closing a closed channel panics)
LegacyCloseCheck(s, m, todo, allDone) ==
  IF gameOver /\ m[s] >= Len(boardFrameBuffer)
    THEN IF queueClosed[s]
           THEN /\ hubPc' = "panic"
                /\ cur' = s
                /\ allReqDone' = allDone
                /\ UNCHANGED <<queueClosed, frameCount, idx>>
           ELSE /\ queueClosed' = [queueClosed EXCEPT ![s] = TRUE]
                /\ LegacyNextReq(todo, allDone)
    ELSE /\ UNCHANGED queueClosed
         /\ LegacyNextReq(todo, allDone)

\* case board, open := <-frameChannel with open, taken while !gameOver:
\* rendezvous with the send of the game loop.
LegacyHubRecvFrame ==
  /\ ~Crashed
  /\ hubPc = "select"
  /\ ~gameOver
  /\ ~frameChannelClosed
  /\ prodPc = "send"
  /\ boardFrameBuffer' = Append(boardFrameBuffer, prodFrame)
  /\ prodPc' = "idle"
  /\ prodFrame' = NilFrame
  /\ LegacyStartPass(reqMap, gameOver)
  /\ UNCHANGED <<reqMap, frameChannelNil, cur, frameCount, idx>>
  /\ UNCHANGED <<prodView, sentCount, gameOverCalls, frameChannelClosed>>
  /\ UNCHANGED <<subVars, stopVars, lisPc, histVars, gameOver, polls>>
  /\ UNCHANGED moveVars

\* case board, open := <-frameChannel with !open: gameOver = true.
LegacyHubRecvClosed ==
  /\ ~Crashed
  /\ hubPc = "select"
  /\ ~gameOver
  /\ frameChannelClosed
  /\ gameOver' = TRUE
  /\ LegacyStartPass(reqMap, TRUE)
  /\ UNCHANGED <<boardFrameBuffer, reqMap, frameChannelNil, cur, frameCount, idx>>
  /\ UNCHANGED <<subVars, prodVars, stopVars, lisPc, histVars, polls>>
  /\ UNCHANGED moveVars

\* case websocketChannels := <-registerWsReqChannel, taken while !gameOver:
\* reqMap[websocketChannels] = 0. The handler goes on into serveBoardFrames
\* up to its first channel operation: the upgrade fails and the handler
\* returns without a send on wc.doneChannel, or conn_loop is entered.
LegacyHubRegister(s) ==
  /\ ~Crashed
  /\ hubPc = "select"
  /\ ~gameOver
  /\ subPc[s] = "register"
  /\ reqMap' = [x \in DOMAIN reqMap \cup {s} |-> IF x = s THEN 0 ELSE reqMap[x]]
  /\ \/ /\ subPc' = [subPc EXCEPT ![s] = "conn_loop"]
        /\ readerPc' = [readerPc EXCEPT ![s] = "reading"]
     \/ /\ subPc' = [subPc EXCEPT ![s] = "upgrade_failed"]
        /\ UNCHANGED readerPc
  /\ registered' = [registered EXCEPT ![s] = TRUE]
  /\ LegacyStartPass(reqMap', gameOver)
  /\ UNCHANGED <<boardFrameBuffer, frameChannelNil, cur, frameCount, idx>>
  /\ UNCHANGED <<frameQueue, queueClosed, lastFrame, written>>
  /\ UNCHANGED <<prodVars, stopVars, lisPc, placed, gameOver, polls>>
  /\ UNCHANGED moveVars

\* time.Sleep(100ms) is over; gameOver is set, so the select is skipped and
\* the next pass starts at once.
LegacyHubPoll ==
  /\ ~Crashed
  /\ hubPc = "poll"
  /\ polls < MaxPolls
  /\ polls' = polls + 1
  /\ LegacyStartPass(reqMap, gameOver)
  /\ UNCHANGED <<boardFrameBuffer, reqMap, frameChannelNil, cur, frameCount, idx>>
  /\ UNCHANGED <<subVars, prodVars, stopVars, lisPc, histVars, gameOver>>
  /\ UNCHANGED moveVars

\* for wc, frameCount := range reqMap: next entry. A done-signal deletes the
\* entry; otherwise for i := frameCount; i < len(boardFrameBuffer); i++
\* starts, or the close check follows at once when frameCount is not below
\* the length.
LegacyHubVisit(s) ==
  /\ ~Crashed
  /\ hubPc = "range"
  /\ s \in passTodo
  /\ passTodo' = passTodo \ {s}
  /\ IF subPc[s] = "done_send"
       THEN /\ reqMap' = DeleteReq(reqMap, s)
            /\ subPc' = [subPc EXCEPT ![s] = "returned"]
            /\ LegacyNextReq(passTodo \ {s}, allReqDone)
            /\ UNCHANGED queueClosed
       ELSE /\ UNCHANGED <<reqMap, subPc>>
            /\ IF reqMap[s] < Len(boardFrameBuffer)
                 THEN /\ cur' = s
                      /\ frameCount' = reqMap[s]
                      /\ idx' = reqMap[s]
                      /\ hubPc' = "send"
                      /\ UNCHANGED <<queueClosed, allReqDone>>
                 ELSE LegacyCloseCheck(s, reqMap, passTodo \ {s}, allReqDone)
  /\ UNCHANGED <<boardFrameBuffer, frameChannelNil>>
  /\ UNCHANGED <<frameQueue, readerPc, lastFrame, written>>
  /\ UNCHANGED <<prodVars, stopVars, lisPc, histVars, gameOver, polls>>
  /\ UNCHANGED moveVars

\* reqMap[wc] after the attempt to send boardFrameBuffer[i]:
\*   case wc.frameChannel <- boardFrameBuffer[i]: reqMap[wc] = i
\*   default:
LegacyCursorAfterSend(ok, cursor, i) == IF ok THEN i ELSE cursor

\* One iteration of the loop over i (idx): the non-blocking send, then
\* allReqDone = false; after the last iteration the close check.
LegacyHubSend ==
  LET ok    == Len(frameQueue[cur]) < QueueCap
      frame == boardFrameBuffer[idx + 1]
      m     == [reqMap EXCEPT
                  ![cur] = LegacyCursorAfterSend(ok, reqMap[cur], idx)]
  IN
    /\ ~Crashed
    /\ hubPc = "send"
    /\ IF queueClosed[cur]
         THEN /\ hubPc' = "panic"
              /\ UNCHANGED <<frameQueue, reqMap, placed, idx, cur, frameCount,
                             queueClosed, allReqDone>>
         ELSE /\ reqMap' = m
              /\ IF ok
                   THEN /\ frameQueue' = [frameQueue EXCEPT ![cur] = Append(@, frame)]
                        /\ placed' = [placed EXCEPT ![cur] = Append(@, idx)]
                   ELSE UNCHANGED <<frameQueue, placed>>
              /\ IF idx + 1 < Len(boardFrameBuffer)
                   THEN /\ idx' = idx + 1
                        /\ allReqDone' = FALSE
                        /\ UNCHANGED <<hubPc, cur, frameCount, queueClosed>>
                   ELSE LegacyCloseCheck(cur, m, passTodo, FALSE)
    /\ UNCHANGED <<boardFrameBuffer, frameChannelNil, passTodo>>
    /\ UNCHANGED <<subPc, readerPc, lastFrame, written>>
    /\ UNCHANGED <<prodVars, stopVars, lisPc, registered, gameOver, polls>>
    /\ UNCHANGED moveVars

\* A GET on the socket path: the handler makes the two channels and blocks in
\* registerWsReqChannel <- reqChannels.
LegacySubConnect(s) ==
  /\ ~Crashed
  /\ subPc[s] = "idle"
  /\ lisPc = "listening"
  /\ \A r \in Subs : r < s => subPc[r] # "idle"
  /\ LegacyWithinLoad(Connections + 1, sentCount)
  /\ subPc' = [subPc EXCEPT ![s] = "register"]
  /\ UNCHANGED <<frameQueue, queueClosed, readerPc, lastFrame, written>>
  /\ UNCHANGED <<hubVars, prodVars, stopVars, lisPc, histVars, flagVars>>
  /\ UNCHANGED moveVars

\* serveBoardFrames, case frame, open := <-wc.frameChannel with a frame: the
\* frame is written; an error of json.Marshal or of the write breaks the
\* loop, and the handler blocks in wc.doneChannel <- struct{}{}.
LegacySubRecvFrame(s) ==
  /\ ~Crashed
  /\ subPc[s] = "conn_loop"
  /\ frameQueue[s] # <<>>
  /\ frameQueue' = [frameQueue EXCEPT ![s] = Tail(@)]
  /\ \/ /\ written' = [written EXCEPT ![s] = Append(@, Head(frameQueue[s]))]
        /\ UNCHANGED subPc
     \/ /\ subPc' = [subPc EXCEPT ![s] = "done_send"]
        /\ UNCHANGED written
  /\ UNCHANGED <<queueClosed, readerPc, lastFrame>>
  /\ UNCHANGED <<hubVars, prodVars, stopVars, lisPc, histVars, flagVars>>
  /\ UNCHANGED moveVars

\* serveBoardFrames, the same case with !open: the close message is written
\* (its error is ignored), break.
LegacySubRecvClosed(s) ==
  /\ ~Crashed
  /\ subPc[s] = "conn_loop"
  /\ frameQueue[s] = <<>>
  /\ queueClosed[s]
  /\ subPc' = [subPc EXCEPT ![s] = "done_send"]
  /\ UNCHANGED <<frameQueue, queueClosed, readerPc, lastFrame, written>>
  /\ UNCHANGED <<hubVars, prodVars, stopVars, lisPc, histVars, flagVars>>
  /\ UNCHANGED moveVars

\* Reader goroutine and conn_loop, case <-closedChannel: the peer goes away
\* while serveBoardFrames is in conn_loop.
LegacySubRecvClosedChannel(s) ==
  /\ ~Crashed
  /\ subPc[s] = "conn_loop"
  /\ readerPc[s] = "reading"
  /\ subPc' = [subPc EXCEPT ![s] = "done_send"]
  /\ readerPc' = [readerPc EXCEPT ![s] = "exited"]
  /\ UNCHANGED <<frameQueue, queueClosed, lastFrame, written>>
  /\ UNCHANGED <<hubVars, prodVars, stopVars, lisPc, histVars, flagVars>>
  /\ UNCHANGED moveVars

\* Reader goroutine after serveBoardFrames has left conn_loop another way: it
\* blocks in closedChannel <- , which nothing receives any more.
LegacyReaderDisconnect(s) ==
  /\ ~Crashed
  /\ readerPc[s] = "reading"
  /\ subPc[s] # "conn_loop"
  /\ readerPc' = [readerPc EXCEPT ![s] = "closed_send"]
  /\ UNCHANGED <<frameQueue, queueClosed, subPc, lastFrame, written>>
  /\ UNCHANGED <<hubVars, prodVars, stopVars, lisPc, histVars, flagVars>>
  /\ UNCHANGED moveVars

\* The game loop sends the frame of the next turn on b.frameChannel, the
\* channel the dispatch goroutine receives from; a send on the closed channel
\* panics.
LegacySendFrame ==
  /\ ~Crashed
  /\ prodPc = "idle"
  /\ sentCount < MaxFrames
  /\ LegacyWithinLoad(Connections, sentCount + 1)
  /\ sentCount' = sentCount + 1
  /\ IF frameChannelClosed
       THEN /\ prodPc' = "panic"
            /\ UNCHANGED prodFrame
       ELSE /\ prodPc' = "send"
            /\ prodFrame' = [Turn |-> sentCount]
  /\ UNCHANGED <<prodView, gameOverCalls, frameChannelClosed>>
  /\ UNCHANGED <<hubVars, subVars, stopVars, lisPc, histVars, flagVars>>
  /\ UNCHANGED moveVars

\* stop(): close(b.frameChannel); a second close panics.
LegacyStop ==
  /\ ~Crashed
  /\ prodPc = "idle"
  /\ stopCalls < MaxStopCalls
  /\ stopCalls' = stopCalls + 1
  /\ IF frameChannelClosed
       THEN /\ prodPc' = "panic"
            /\ UNCHANGED frameChannelClosed
       ELSE /\ prodPc' = "shutdown"
            /\ frameChannelClosed' = TRUE
  /\ UNCHANGED <<stopReturns, stopGot, shutdownCalled>>
  /\ UNCHANGED <<prodFrame, prodView, sentCount, gameOverCalls>>
  /\ UNCHANGED <<hubVars, subVars, lisPc, histVars, flagVars>>
  /\ UNCHANGED moveVars

\* stop(): b.Server.Shutdown(context.Background()).
LegacyStopShutdown ==
  /\ ~Crashed
  /\ prodPc = "shutdown"
  /\ shutdownCalled' = TRUE
  /\ prodPc' = "recv1"
  /\ UNCHANGED <<stopCalls, stopReturns, stopGot>>
  /\ UNCHANGED <<prodFrame, prodView, sentCount, gameOverCalls, frameChannelClosed>>
  /\ UNCHANGED <<hubVars, subVars, lisPc, histVars, flagVars>>
  /\ UNCHANGED moveVars

\* server.ListenAndServe() returns, after Shutdown or with an error of its
\* own; the goroutine blocks in doneChannel <- struct{}{}.
LegacyListenerReturn ==
  /\ ~Crashed
  /\ lisPc = "listening"
  /\ lisPc' = "complete"
  /\ UNCHANGED <<hubVars, subVars, prodVars, stopVars, histVars, flagVars>>
  /\ UNCHANGED moveVars

\* stop() receives the value the dispatch goroutine sends after its loop.
LegacyStopRecvHub ==
  /\ ~Crashed
  /\ hubPc = "complete"
  /\ hubPc' = "done"
  /\ StopRecv("hub")
  /\ UNCHANGED <<boardFrameBuffer, reqMap, frameChannelNil, passTodo, cur,
                 frameCount, idx>>
  /\ UNCHANGED <<subVars, lisPc, histVars, flagVars>>
  /\ UNCHANGED moveVars

\* stop() receives the value the listener goroutine sends.
LegacyStopRecvListener ==
  /\ ~Crashed
  /\ lisPc = "complete"
  /\ lisPc' = "done"
  /\ StopRecv("listener")
  /\ UNCHANGED <<hubVars, subVars, histVars, flagVars>>
  /\ UNCHANGED moveVars

LegacyNext ==
  \/ LegacySendFrame
  \/ LegacyStop
  \/ LegacyStopShutdown
  \/ LegacyHubRecvFrame
  \/ LegacyHubRecvClosed
  \/ \E s \in Subs : LegacyHubRegister(s)
  \/ LegacyHubPoll
  \/ \E s \in Subs : LegacyHubVisit(s)
  \/ LegacyHubSend
  \/ \E s \in Subs : LegacySubConnect(s)
  \/ \E s \in Subs : LegacySubRecvFrame(s)
  \/ \E s \in Subs : LegacySubRecvClosed(s)
  \/ \E s \in Subs : LegacySubRecvClosedChannel(s)
  \/ \E s \in Subs : LegacyReaderDisconnect(s)
  \/ LegacyListenerReturn
  \/ LegacyStopRecvHub
  \/ LegacyStopRecvListener

LegacySpec == Init /\ [][LegacyNext]_vars

\* ------------------------------------------------------------------------
\* The move command (cli/commands/move.go): move() reads MoveState values
\* from stdin, computes the next board state of each and writes the next
\* request to stdout. The ruleset and the game map belong to the rules and
\* maps packages; their calls are steps whose error is chosen freely and
\* whose result is what the specification says of them.

\* number of MoveState values move() decodes
MaxLines == 2
\* number of snakes of a request
MaxSnakes == 2
\* length of the moves list of a MoveState
MaxMoves == 3
\* largest health of a snake
MaxHealth == 1
\* bound on (values decoded) * (snakes of the value decoded)
MaxMoveLoad == 2

\* rules.NotEliminated, and the cause the ruleset step gives
NotEliminated == ""
Eliminated == "snake-collision"

\* client.Snake values of a request with n snakes: ID i at position i, full
\* health, a body of length 0 or 1 (only body[0] is read)
ClientSnakes(n) ==
  {[i \in 1..n |-> [ID |-> i, Health |-> MaxHealth, Body |-> bd[i]]] :
     bd \in [1..n -> {0, 1}]}

\* The MoveState values with at most maxN snakes a line of stdin may decode
\* to. You.ID is the ID of a snake, or 0, the ID of no snake.
MoveStates(maxN) ==
  {[Request |-> [Turn |-> t, Snakes |-> sn, You |-> y], Moves |-> mv] :
     t \in 0..MaxTurn,
     sn \in UNION {ClientSnakes(n) : n \in 0..maxN},
     y \in 0..MaxSnakes,
     mv \in {[i \in 1..k |-> "up"] : k \in 0..MaxMoves}}

\* The largest snake list of the next value decoded within the bounds.
SnakesWithinLoad ==
  IF MaxMoveLoad \div (linesRead + 1) < MaxSnakes
    THEN MaxMoveLoad \div (linesRead + 1)
    ELSE MaxSnakes

\* rules.Snake{ID: s.ID, Health: s.Health, Body: PointFromCoordArray(s.Body)}
RulesSnake(s) ==
  [ID |-> s.ID, Health |-> s.Health, Body |-> s.Body,
   EliminatedCause |-> NotEliminated, EliminatedBy |-> "",
   EliminatedOnTurn |-> 0]

\* youIdx := 0; for i, s := range Snakes { if s.ID == youID { youIdx = i } }
youIdx(snakes, youID) ==
  IF \E i \in 1..Len(snakes) : snakes[i].ID = youID
    THEN (CHOOSE i \in 1..Len(snakes) :
            /\ snakes[i].ID = youID
            /\ \A j \in (i + 1)..Len(snakes) : snakes[j].ID # youID) - 1
    ELSE 0

\* rules.NewBoardState, the append loop over the snakes, boardState.Turn.
NewBoardState(request) ==
  [Turn |-> request.Turn,
   Snakes |-> [i \in 1..Len(request.Snakes) |-> RulesSnake(request.Snakes[i])]]

\* for i, move := range state.Moves { moves = append(moves,
\*   rules.SnakeMove{ID: state.Request.Board.Snakes[i].ID, Move: move}) }
\* for a moves list no longer than the snake list.
SnakeMoves(st) ==
  [i \in 1..Len(st.Moves) |->
     [ID |-> st.Request.Snakes[i].ID, Move |-> st.Moves[i]]]

\* ruleset.CreateNextBoardState: the snakes at the positions elim are marked
\* eliminated, none is removed; the turn number is left as it is.
CreateNextBoardState(b, elim) ==
  [b EXCEPT !.Snakes =
     [i \in 1..Len(b.Snakes) |->
        IF i \in elim
          THEN [b.Snakes[i] EXCEPT !.EliminatedCause = Eliminated,
                                   !.EliminatedOnTurn = b.Turn + 1]
          ELSE b.Snakes[i]]]

\* convertRulesAPISnake: health = 0 if snake.EliminatedCause !=
\* rules.NotEliminated, else snake.Health
Health(snake) ==
  IF snake.EliminatedCause # NotEliminated THEN 0 ELSE snake.Health

\* convertRulesAPISnake: ID, Health and Length of the client.Snake returned
\* (for a snake with a body; Head: body[0] panics on an empty one).
convertRulesAPISnake(snake) ==
  [ID |-> snake.ID, Health |-> Health(snake), Length |-> snake.Body]

convertRulesAPISnakes(snakes) ==
  [i \in 1..Len(snakes) |-> convertRulesAPISnake(snakes[i])]

\* Turn of the request written for a board state that keeps the turn number
NextTurn_Same(b) == b.Turn

\* Turn: boardState.Turn + 1
NextTurn(b) == b.Turn + 1

\* newRequest of move(): Turn, Board.Snakes and You.
NewRequest(b, idx0) ==
  [Turn |-> NextTurn(b),
   Snakes |-> convertRulesAPISnakes(b.Snakes),
   You |-> convertRulesAPISnake(b.Snakes[idx0 + 1])]

\* position after a call that returns err, when every error is ignored
AfterCall_Ignore(err, next) == next

\* if err != nil { errLog.Fatalf(...) }: position after a call
AfterCall(err, next) == IF err THEN "fatal" ELSE next

\* decoder.Decode returns io.EOF: break.
MoveEOF ==
  /\ movePc = "decode"
  /\ movePc' = "ended"
  /\ UNCHANGED <<linesRead, state, boardState, moves, calls, stdout, errLog,
                 websiteSnakes>>
  /\ UNCHANGED serverVars

\* decoder.Decode returns another error: errLog.Print(err); break.
MoveDecodeError ==
  /\ movePc = "decode"
  /\ errLog' = Append(errLog, "decode")
  /\ movePc' = "ended"
  /\ UNCHANGED <<linesRead, state, boardState, moves, calls, stdout,
                 websiteSnakes>>
  /\ UNCHANGED serverVars

\* decoder.Decode returns a MoveState: the board state and the moves are
\* built. state.Request.Board.Snakes[i] is out of range, and move() panics,
\* when there are more moves than snakes.
MoveDecode(st) ==
  /\ movePc = "decode"
  /\ linesRead < MaxLines
  /\ linesRead' = linesRead + 1
  /\ state' = st
  /\ calls' = <<>>
  /\ boardState' = NewBoardState(st.Request)
  /\ IF Len(st.Moves) > Len(st.Request.Snakes)
       THEN /\ movePc' = "panic"
            /\ moves' = <<>>
       ELSE /\ movePc' = "step"
            /\ moves' = SnakeMoves(st)
  /\ UNCHANGED <<stdout, errLog, websiteSnakes>>
  /\ UNCHANGED serverVars

\* A call of the ruleset or of the map for the current line: it is recorded,
\* an error is fatal, otherwise the board state is b and move() goes on.
MoveCall(name, err, b, next) ==
  /\ calls' = Append(calls, [Call |-> name, Err |-> err])
  /\ movePc' = AfterCall(err, next)
  /\ boardState' = IF err THEN boardState ELSE b
  /\ errLog' = IF err THEN Append(errLog, name) ELSE errLog
  /\ UNCHANGED <<linesRead, state, moves, stdout, websiteSnakes>>
  /\ UNCHANGED serverVars

\* boardState, err = ruleset.CreateNextBoardState(boardState, moves)
MoveCreateNextBoardState ==
  /\ movePc = "step"
  /\ \E err \in BOOLEAN, elim \in SUBSET (1..Len(boardState.Snakes)) :
       /\ err => elim = {}
       /\ MoveCall("CreateNextBoardState", err,
                   CreateNextBoardState(boardState, elim), "update")

\* boardState, err = maps.UpdateBoard(mapID, boardState, settings): the map
\* changes food and hazards only.
MoveUpdateBoard ==
  /\ movePc = "update"
  /\ \E err \in BOOLEAN : MoveCall("UpdateBoard", err, boardState, "over")

\* _, err = ruleset.IsGameOver(boardState)
MoveIsGameOver ==
  /\ movePc = "over"
  /\ \E err \in BOOLEAN : MoveCall("IsGameOver", err, boardState, "write")

\* newBoard, newRequest, json.Marshal, os.Stdout.Write. body[0] panics for a
\* snake with an empty body, boardState.Snakes[youIdx] for an empty list.
\* After the write the next iteration starts with fresh locals.
MoveWrite ==
  /\ movePc = "write"
  /\ IF \/ boardState.Snakes = <<>>
        \/ \E i \in 1..Len(boardState.Snakes) : boardState.Snakes[i].Body = 0
       THEN /\ movePc' = "panic"
            /\ UNCHANGED <<stdout, state, boardState, moves, calls>>
       ELSE /\ movePc' = "decode"
            /\ stdout' = Append(stdout,
                 NewRequest(boardState,
                            youIdx(state.Request.Snakes, state.Request.You)))
            /\ state' = NoState
            /\ boardState' = NoBoard
            /\ moves' = <<>>
            /\ calls' = <<>>
  /\ UNCHANGED <<linesRead, errLog, websiteSnakes>>
  /\ UNCHANGED serverVars

MoveNext ==
  \/ MoveEOF
  \/ MoveDecodeError
  \/ \E st \in MoveStates(SnakesWithinLoad) : MoveDecode(st)
  \/ MoveCreateNextBoardState
  \/ MoveUpdateBoard
  \/ MoveIsGameOver
  \/ MoveWrite

MoveSpec == Init /\ [][MoveNext]_vars

\* ------------------------------------------------------------------------
\* The two conversions of the snake list of a board state the ruleset has
\* returned: frameFromState (board server) and convertRulesAPISnakes (the
\* write of move()).

\* nil *BoardDeath
NoDeath == [Cause |-> "", Turn |-> -1, EliminatedBy |-> ""]

\* frameFromState: death of a snake; the fields the literal does not name
\* keep their zero value.
BoardDeathOf(snake) ==
  IF snake.EliminatedCause = NotEliminated /\ snake.EliminatedBy = ""
    THEN NoDeath
    ELSE [Cause |-> snake.EliminatedCause, Turn |-> 0,
          EliminatedBy |-> snake.EliminatedBy]

\* frameFromState: wSnake, with its ID, Health and Death.
wSnake(snake) ==
  [ID |-> snake.ID, Health |-> snake.Health, Death |-> BoardDeathOf(snake)]

\* Elimination fields of a rules.Snake: not eliminated, or eliminated on a
\* turn, by another snake or by none.
Eliminations ==
  {[c |-> NotEliminated, by |-> "", t |-> 0]}
    \cup {[c |-> Eliminated, by |-> b, t |-> t] :
            b \in {"", "other"}, t \in 1..(MaxTurn + 1)}

\* The snake lists with n snakes a ruleset step may return.
RulesSnakes(n) ==
  {[i \in 1..n |->
      [ID |-> i, Health |-> h[i], Body |-> 1,
       EliminatedCause |-> e[i].c, EliminatedBy |-> e[i].by,
       EliminatedOnTurn |-> e[i].t]] :
     h \in [1..n -> 0..MaxHealth], e \in [1..n -> Eliminations]}

\* move() about to build newBoard, with any board state of the ruleset.
SnakeInit ==
  /\ ServerInit
  /\ movePc = "write"
  /\ linesRead = 1
  /\ state = NoState
  /\ boardState \in {[Turn |-> t, Snakes |-> sn] :
                       t \in 0..MaxTurn,
                       sn \in UNION {RulesSnakes(n) : n \in 0..MaxSnakes}}
  /\ moves = <<>>
  /\ calls = <<>>
  /\ stdout = <<>>
  /\ errLog = <<>>
  /\ websiteSnakes = <<>>

\* frameFromState(state, snakeStates) for the board state: websiteSnakes.
FrameFromState ==
  /\ movePc = "write"
  /\ websiteSnakes' = [i \in 1..Len(boardState.Snakes) |->
                         wSnake(boardState.Snakes[i])]
  /\ UNCHANGED <<movePc, linesRead, state, boardState, moves, calls, stdout,
                 errLog>>
  /\ UNCHANGED serverVars

SnakeNext ==
  \/ FrameFromState
  \/ MoveWrite

SnakeSpec == SnakeInit /\ [][SnakeNext]_vars

\* ------------------------------------------------------------------ claims
\* C1: the frames put on a subscriber's queue are buffer[0], buffer[1], ... in
\* ingestion order, no index skipped and none repeated.
C1_QueueInOrderNoGaps ==
  \A s \in Subs : \A k \in 1..Len(placed[s]) : placed[s][k] = k - 1

\* C3: a subscriber registered when N frames were buffered (any N) writes the
\* frames with turn 0, 1, 2, ... in this order: frames 0..N-1 first, then the
\* later ones, none skipped.
C3_LateSubscriberNoSkip ==
  \A s \in Subs :
    registered[s] =>
      \A k \in 1..Len(written[s]) :
        written[s][k].Type = "frame" => written[s][k].Data.Turn = k - 1

\* No registration, stop request or completion signal is waiting for the
\* select of serve_loop.
NoPendingEvent ==
  /\ \A r \in Subs : subPc[r] # "register"
  /\ prodPc # "request"
  /\ lisPc # "complete"

\* C4: after gameOver() a connected, reading subscriber gets the rest of the
\* buffer and the close of its queue without any further event: so when the
\* dispatch loop waits in its select after gameOver() and no event is pending,
\* a subscriber in conn_loop that has drained its queue has had it closed.
C4_DrainWithoutFurtherEvent ==
  (frameChannelNil /\ hubPc = "select" /\ NoPendingEvent) =>
    \A s \in DOMAIN reqMap :
      (subPc[s] = "conn_loop" /\ frameQueue[s] = <<>>) => queueClosed[s]

\* A step of the inner range of the dispatch loop.
AttemptStep == hubPc = "send" /\ (idx' # idx \/ hubPc' # "send")

\* C2: a subscriber that never reads does not block the hub. While the game
\* is running a pending sendState is eventually accepted; every subscriber of
\* a dispatch pass gets its turn in that pass; and an attempt for a subscriber
\* whose queue has room puts the frame on that queue, whatever the state of
\* the other queues.
C2_FullQueueNeverBlocksHub ==
  /\ (prodPc = "send") ~> (prodPc = "idle")
  /\ \A t \in Subs : (t \in passTodo) ~> (t \notin passTodo)
  /\ [][(AttemptStep /\ Len(frameQueue[cur]) < QueueCap) =>
         frameQueue'[cur] =
           Append(frameQueue[cur], boardFrameBuffer[frameCount + idx + 1])]_vars

\* A subscriber that never reads has a full queue and lags behind the buffer,
\* while another one has been sent every frame.
C2_Witness ==
  \E s, t \in DOMAIN reqMap :
    /\ s # t
    /\ subPc[s] = "upgrade_failed"
    /\ Len(frameQueue[s]) = QueueCap
    /\ reqMap[s] < Len(boardFrameBuffer)
    /\ reqMap[t] = Len(boardFrameBuffer)
    /\ hubPc = "select"

\* Positions of the game_end envelopes among those s has written.
GameEnds(s) == {k \in 1..Len(written[s]) : written[s][k].Type = "game_end"}

\* C5: a subscriber writes at most one game_end envelope and nothing after it;
\* its Data is the last frame of the buffer, and by then the subscriber has
\* written every frame of the buffer.
C5_GameEndOnceWithLastFrame ==
  \A s \in Subs :
    /\ Cardinality(GameEnds(s)) <= 1
    /\ \A k \in GameEnds(s) :
         /\ k = Len(written[s])
         /\ boardFrameBuffer # <<>> =>
              written[s][k].Data = boardFrameBuffer[Len(boardFrameBuffer)]
         /\ \A i \in 1..Len(boardFrameBuffer) :
              \E j \in 1..(k - 1) : written[s][j].Data = boardFrameBuffer[i]

\* C6: when stop() has returned, the dispatch goroutine has left serve_loop
\* and handed over its completion signal, the listener goroutine has returned
\* from ListenAndServe and handed over its own, and these are the two values
\* stop() received.
C6_StopReturnsAfterBoth ==
  stopReturns >= 1 =>
    /\ hubPc = "done"
    /\ lisPc = "done"
    /\ Len(stopGot) = 2
    /\ {stopGot[k] : k \in 1..Len(stopGot)} = {"hub", "listener"}

\* stop() has returned.
C6_Witness == stopReturns = 1 /\ prodPc = "idle"

\* C7: a second stop() after the first has returned does not block forever:
\* it is never waiting in its send on b.doneChannel when the only receiver
\* besides stop() itself, the dispatch loop, has terminated.
C7_SecondStopReturns ==
  ~(stopReturns >= 1 /\ prodPc = "request" /\ hubPc = "done")

\* C8: a sendState after gameOver() fails at once: the call is never waiting
\* in a send that cannot panic, that is a send on the nil channel.
C8_SendAfterGameOverFails ==
  (frameChannelClosed /\ prodPc = "send") => prodView = "chan"

\* C9: buffer[i].Turn = i for every index i of the buffer.
C9_TurnEqualsIndex ==
  \A i \in 1..Len(boardFrameBuffer) : boardFrameBuffer[i].Turn = i - 1

CursorInRange(m, buffer) == \A s \in DOMAIN m : 0 <= m[s] /\ m[s] <= Len(buffer)

\* C10: every cursor is within 0..len(buffer); a cursor starts at 0, never
\* decreases, and changes only in a step of the inner range in which the send
\* to that subscriber's queue succeeds; it is then one more than the index of
\* the frame sent, which is the next index tried for that subscriber.
C10_CursorStep ==
  /\ CursorInRange(reqMap, boardFrameBuffer)
  /\ CursorInRange(reqMap', boardFrameBuffer')
  /\ \A s \in DOMAIN reqMap' \ DOMAIN reqMap : reqMap'[s] = 0
  /\ \A s \in DOMAIN reqMap \cap DOMAIN reqMap' :
       reqMap'[s] # reqMap[s] =>
         /\ reqMap'[s] > reqMap[s]
         /\ hubPc = "send" /\ cur = s
         /\ Len(frameQueue[s]) < QueueCap
         /\ frameQueue'[s] = Append(frameQueue[s], boardFrameBuffer[reqMap'[s]])
         /\ hubPc' = "send" => frameCount' + idx' = reqMap'[s]
  /\ (hubPc # "send" /\ hubPc' = "send") => frameCount' + idx' = reqMap'[cur']

\* C10: every step of the hub is such a step.
C10_CursorOnlyBySend == [][C10_CursorStep]_vars

\* A cursor that has advanced and then stayed behind a full queue.
C10_Witness ==
  \E s \in DOMAIN reqMap :
    /\ reqMap[s] > 0
    /\ reqMap[s] < Len(boardFrameBuffer)
    /\ Len(frameQueue[s]) = QueueCap
    /\ hubPc = "select"

\* serveFrames of s leaves conn_loop and blocks in req.doneChannel <- : its
\* peer has gone, a write has failed, or game_end has been written.
RaisesDone(s) == subPc[s] = "conn_loop" /\ subPc'[s] = "done_send"

\* The dispatch loop takes the done-signal of s in its pass.
ObservesDone(s) == subPc[s] = "done_send" /\ subPc'[s] = "returned"

\* C11: the teardown of subscriber s touches only s. The step in which
\* serveFrames of s raises its done-signal leaves the hub as it is, s still
\* in the live set; the step in which the dispatch loop observes the signal
\* removes s and goes on with the pass. Neither step closes or writes another
\* subscriber's queue, changes another cursor or the buffer, moves another
\* handler, ends the dispatch loop or changes the producer's call.
C11_TeardownStep ==
  \A s \in Subs :
    (RaisesDone(s) \/ ObservesDone(s)) =>
      /\ boardFrameBuffer' = boardFrameBuffer
      /\ \A t \in Subs \ {s} :
           /\ frameQueue'[t] = frameQueue[t]
           /\ queueClosed'[t] = queueClosed[t]
           /\ subPc'[t] = subPc[t]
           /\ t \in DOMAIN reqMap =>
                t \in DOMAIN reqMap' /\ reqMap'[t] = reqMap[t]
      /\ prodPc' = prodPc
      /\ prodFrame' = prodFrame
      /\ RaisesDone(s) => hubPc' = hubPc /\ reqMap' = reqMap
      /\ ObservesDone(s) =>
           /\ s \notin DOMAIN reqMap'
           /\ hubPc' \in {"range", "select"}
           /\ queueClosed' = queueClosed
           /\ frameQueue' = frameQueue

\* C11: every step is such a step.
C11_OnlySubscriberTornDown == [][C11_TeardownStep]_vars

\* Subscriber s has been torn down and removed while another subscriber is
\* still served: it is in the live set with its cursor, and has written a
\* frame that s never wrote.
C11_Witness ==
  \E s, t \in Subs :
    /\ s # t
    /\ subPc[s] = "returned"
    /\ s \notin DOMAIN reqMap
    /\ t \in DOMAIN reqMap
    /\ subPc[t] = "conn_loop"
    /\ reqMap[t] > 0
    /\ Len(written[t]) > Len(written[s])
    /\ hubPc = "select"

\* C18: in a pass the dispatch loop stops at the first frame that does not
\* fit in the queue of subscriber S: whenever it is about to attempt a frame
\* for S, the index of that frame is S's cursor, so no attempt follows a
\* failed one in the same pass and the next pass starts with the frame that
\* failed.
C18_StopAtFirstFullQueue ==
  hubPc = "send" => frameCount + idx = reqMap[cur]

\* C20: the dispatch loop closes a subscriber's queue at most once and never
\* sends on a queue it has closed: no pass reaches close(req.frameChannel)
\* or req.frameChannel <- frame for a req whose channel is closed already,
\* the two operations on which the goroutine panics.
C20_ClosedAtMostOnce == hubPc # "panic"

\* C12: in the boardServer with the gameOver flag a registration made after
\* the end of the game is still received by the dispatch goroutine: a handler
\* is never waiting in registerWsReqChannel <- reqChannels when the goroutine
\* has set gameOver, after which it executes its select no more.
C12_LateRegistrationAccepted ==
  ~(gameOver /\ \E s \in Subs : subPc[s] = "register")

\* Buffer indexes put on the queue of s.
PlacedSet(s) == {placed[s][k] : k \in 1..Len(placed[s])}

\* C19: in the boardServer with the gameOver flag every buffered frame is put
\* on a subscriber's queue once, not twice; and once every subscriber of the
\* map has been sent the whole buffer after the end of the game, the dispatch
\* goroutine does not go on polling: it leaves its loop although the peers
\* are still connected.
C19_DrainOnceThenLeave ==
  /\ \A s \in Subs : Cardinality(PlacedSet(s)) = Len(placed[s])
  /\ ~(/\ hubPc = "poll"
       /\ \A s \in DOMAIN reqMap :
            PlacedSet(s) = 0..(Len(boardFrameBuffer) - 1))

\* The request written in this step.
Written == stdout'[Len(stdout')]

\* C13: the request move() writes for a line has the turn of the line's
\* request plus 1, whatever the moves and however many lines came before.
C13_WriteStep ==
  stdout' # stdout =>
    /\ Len(stdout') = Len(stdout) + 1
    /\ Written.Turn = state.Request.Turn + 1

\* C13: every write is such a step.
C13_TurnPlusOne == [][C13_WriteStep]_vars

\* Two lines have been written: the first for a request of the last turn, the
\* second for a request of turn 0.
C13_Witness ==
  /\ Len(stdout) = 2
  /\ stdout[1].Turn = MaxTurn + 1
  /\ stdout[2].Turn = 1

\* The calls made for the current line that change the board state.
IsTurnStep(c) == c.Call # "IsGameOver"
TurnSteps == [i \in 1..Len(SelectSeq(calls, IsTurnStep)) |->
                SelectSeq(calls, IsTurnStep)[i].Call]

\* C14: when move() comes to increment the turn and write, it has applied to
\* the line's board state the map update, then the ruleset step, then the map
\* update, each once and in this order.
C14_StepsInOrder ==
  movePc = "write" =>
    TurnSteps = <<"UpdateBoard", "CreateNextBoardState", "UpdateBoard">>

\* move() has left its loop: end of input or decode error, fatal error, panic.
MoveOver == movePc \in {"ended", "fatal", "panic"}

\* C15: a request is written only at the end of a line whose ruleset step,
\* map update and game-over check have all returned without error, and it is
\* appended to what was written before; a decode error is logged and ends the
\* loop, an error of one of the three calls is fatal, and neither writes
\* anything; once the loop is over nothing more is read or written.
C15_LoopStep ==
  /\ stdout' # stdout =>
       /\ movePc = "write"
       /\ SubSeq(stdout', 1, Len(stdout)) = stdout
       /\ Len(stdout') = Len(stdout) + 1
       /\ [i \in 1..Len(calls) |-> calls[i]] =
            <<[Call |-> "CreateNextBoardState", Err |-> FALSE],
              [Call |-> "UpdateBoard", Err |-> FALSE],
              [Call |-> "IsGameOver", Err |-> FALSE]>>
  /\ (movePc = "decode" /\ errLog' # errLog) =>
       movePc' = "ended" /\ stdout' = stdout /\ linesRead' = linesRead
  /\ (Len(calls') > Len(calls) /\ calls'[Len(calls')].Err) =>
       /\ movePc' = "fatal"
       /\ stdout' = stdout
       /\ errLog' = Append(errLog, calls'[Len(calls')].Call)
  /\ MoveOver => UNCHANGED moveVars

\* C15: every step of the loop is such a step.
C15_OutputOnlyOnSuccess == [][C15_LoopStep]_vars

\* The first line has been written and the map update of the second has
\* failed.
C15_Witness ==
  /\ Len(stdout) = 1
  /\ linesRead = 2
  /\ movePc = "fatal"
  /\ Len(calls) = 2

\* C16: move() builds the moves and reaches the ruleset step for every
\* decoded line: it never panics before its first call of the ruleset.
C16_MovesBuiltForAnyLength == ~(movePc = "panic" /\ calls = <<>>)

\* The snake list ws of a frame marks the snakes of sn: same length and IDs,
\* a death with cause and turn for an eliminated snake, none for the others.
FrameMarks(sn, ws) ==
  /\ Len(ws) = Len(sn)
  /\ \A i \in 1..Len(sn) :
       /\ ws[i].ID = sn[i].ID
       /\ IF sn[i].EliminatedCause # NotEliminated
            THEN /\ ws[i].Death # NoDeath
                 /\ ws[i].Death.Cause = sn[i].EliminatedCause
                 /\ ws[i].Death.Turn = sn[i].EliminatedOnTurn
            ELSE ws[i].Death = NoDeath

\* The snake list cs of a written request marks the snakes of sn: same
\* length and IDs, health 0 for an eliminated snake.
SnapshotMarks(sn, cs) ==
  /\ Len(cs) = Len(sn)
  /\ \A i \in 1..Len(sn) :
       /\ cs[i].ID = sn[i].ID
       /\ sn[i].EliminatedCause # NotEliminated => cs[i].Health = 0

\* C17: eliminated snakes are marked, never removed, by both conversions of
\* the board state the ruleset step has returned.
C17_ConversionStep ==
  /\ websiteSnakes' # websiteSnakes =>
       FrameMarks(boardState.Snakes, websiteSnakes')
  /\ stdout' # stdout => SnapshotMarks(boardState.Snakes, Written.Snakes)

\* C17: every conversion is such a step.
C17_EliminatedMarked == [][C17_ConversionStep]_vars

\* stop() has handed its request to the dispatch loop: the call in progress is
\* past its send on b.doneChannel, or a call has returned.
StopRequestTaken ==
  \/ prodPc \in {"shutdown", "recv1", "recv2"}
  \/ stopReturns >= 1

\* C21: the three kinds of value on b.doneChannel are never confused, so that
\* a single stop() returns: the dispatch loop has left serve_loop only by
\* receiving the request of stop(), never the completion signal of the
\* listener goroutine, also when ListenAndServe returns before stop() is
\* called (stop() would then wait in its send for a receiver that is gone).
C21_LeavesOnlyOnStopRequest ==
  hubPc \in {"complete", "done"} => StopRequestTaken

\* serveFrames of s waits in req.doneChannel <- struct{}{} and the dispatch
\* loop, whose range holds the only receive on that channel, has left
\* serve_loop.
DeliveryStuck(s) ==
  /\ subPc[s] = "done_send"
  /\ hubPc \in {"complete", "done"}

\* The reader goroutine of s waits in closedChannel <- struct{}{} and
\* serveFrames, whose conn_loop holds the only receive on that channel, has
\* left conn_loop.
ReaderStuck(s) ==
  /\ readerPc[s] = "closed_send"
  /\ subPc[s] # "conn_loop"

\* C22: every task serveFrames creates for a subscriber terminates: the
\* delivery task never waits in its send on req.doneChannel without a
\* receiver left, and the reader goroutine never waits in its send on
\* closedChannel without a receiver left.
C22_SubscriberTasksTerminate ==
  \A s \in Subs : ~DeliveryStuck(s) /\ ~ReaderStuck(s)

====
